---------------------------- MODULE Spec2Model ----------------------------
(***************************************************************************)
(* The three serverless "digital worker" entry points of the repository:   *)
(*   handler.py       lambda_handler : the LangGraph planner / tool loop   *)
(*   agentcore_b2.py  handler        : fixed script over a managed browser *)
(*   lambda.py        handler        : fixed script, placeholder actions   *)
(* Exactly one of them is deployed as the function of a process; the       *)
(* external collaborators (oracle, browser, S3, session service) are       *)
(* nondeterministic: each call either succeeds or raises.                  *)
(***************************************************************************)
EXTENDS Integers, Sequences, FiniteSets, TLC

\* ------------------------------------------------------------------ bounds
MaxRuns    == 2    \* invocations of lambda_handler in one warm process
MaxQueries == 2    \* oracle queries (llm.invoke) followed within one run
MaxBatch   == 2    \* tool requests carried by one oracle reply

\* ------------------------------------------------- handler.py : constants
\* TOOLS, handler.py line 138 (the .name of each @tool function)
TOOLS == <<"open_url", "fill_form", "click", "get_text", "screenshot", "api_request">>

\* the tools whose body starts with b = get_browser()
BrowserTools == {"open_url", "fill_form", "click", "get_text", "screenshot"}

\* Names the oracle may put in a tool request: a browser tool, the HTTP tool
\* and a name that is not registered.
RequestNames == {"click", "api_request", "send_mail"}

\* Texts the oracle may answer with: a Run Outcome as the prompt demands,
\* JSON that is not a Run Outcome, and plain prose.
OutcomeText == "{\"status\":\"ok\",\"result\":{\"summary\":\"done\"}}"
OtherJsonText == "{\"note\":\"done\"}"
ProseText == "All done."
PlanText == "I will use the tools."
ReplyTexts == {OutcomeText, OtherJsonText, ProseText}

END == "__end__"

VARIABLES
    deployed,           \* which module is the function: "handler", "agentcore_b2", "lambda"
    oracle,             \* the oracle's kind: "finishing" or "greedy" (see Replies)
    \* ---- handler.py
    run,                \* number of lambda_handler invocations started in this process
    hpc,                \* position of lambda_handler / the graph
    messages,           \* state["messages"]
    tci,                \* run_tools: index of the tool call being processed
    tool_msgs,          \* run_tools: tool_msgs
    invoked,            \* found.invoke() calls of the current batch: <<name, how it ended>>
    seen,               \* the conversation handed to the last llm.invoke()
    queries,            \* llm.invoke() calls of the current run
    browser_singleton,  \* browser_singleton["session"]: 0 is None, else a session id
    launched,           \* launched[s]: the run in which Browser().__enter__() made session s
    exited,             \* exited[s]: number of Browser.__exit__ calls on session s
    uses,               \* <<run, session>>: a tool of that run acted on that session's page
    response,           \* what lambda_handler returned
    \* ---- agentcore_b2.py
    b2pc, b2acquired, b2stops, b2stop, b2pending, b2result,
    \* ---- lambda.py
    lpc, lacquired, lstops, lstop, lpending, lresult

hvars == <<run, hpc, messages, tci, tool_msgs, invoked, seen, queries,
           browser_singleton, launched, exited, uses, response>>
b2vars == <<b2pc, b2acquired, b2stops, b2stop, b2pending, b2result>>
lvars == <<lpc, lacquired, lstops, lstop, lpending, lresult>>
vars == <<deployed, oracle, hvars, b2vars, lvars>>

\* ------------------------------------------------------ handler.py : data
Msg(role, name, content, tool_calls) ==
    [role |-> role, name |-> name, content |-> content, tool_calls |-> tool_calls]

\* _start_messages, handler.py 193-197
start_messages ==
    << Msg("system", "", <<"SYSTEM_PROMPT">>, <<>>),
       Msg("user", "", <<"instruction+payload">>, <<>>) >>

NoResponse == [statusCode |-> 0, status |-> "", message |-> "", raw |-> ""]

\* json.loads on the texts above: does it parse, and the "status" member of
\* the parsed value ("" when the value has none).
json_loads(text) ==
    CASE text = OutcomeText   -> [parses |-> TRUE,  status |-> "ok"]
      [] text = OtherJsonText -> [parses |-> TRUE,  status |-> ""]
      [] OTHER                -> [parses |-> FALSE, status |-> ""]

\* all sequences over S of length lo..hi
SeqsOf(S, lo, hi) == UNION { [1..n -> S] : n \in lo..hi }


\* ---------------------------------------------------- handler.py : helpers
\* The oracle's reply to query number q of a run: response.content and
\* response.tool_calls.  A "finishing" oracle answers without tool requests by
\* its MaxQueries-th reply at the latest; a "greedy" oracle requests one tool
\* in every reply.
FinalReplies == { [content |-> c, tool_calls |-> <<>>] : c \in ReplyTexts }
ToolReplies(lo, hi) ==
    { [content |-> PlanText, tool_calls |-> tcs] : tcs \in SeqsOf(RequestNames, lo, hi) }
Replies(mode, q) ==
    IF mode = "greedy" THEN ToolReplies(1, 1)
    ELSE FinalReplies \cup (IF q < MaxQueries THEN ToolReplies(1, MaxBatch) ELSE {})

\* agent_node, handler.py 150: the assistant turn appended for a reply
assistant_msg(reply) == Msg("assistant", "", <<reply.content>>, reply.tool_calls)

\* run_tools, handler.py 161-162: the tool calls of the last message
last_tool_calls(msgs) == msgs[Len(msgs)].tool_calls

\* faulty variant: the condition of the edge inverted
route_inverted(msgs) ==
    IF last_tool_calls(msgs) = <<>> THEN "tools" ELSE END

\* faulty variant: the loop gives up after the first round of tools
route_step_capped(msgs) ==
    IF last_tool_calls(msgs) # <<>> /\ Len(msgs) <= 3 THEN "tools" ELSE END

\* route_after_agent, handler.py 153-157
route_after_agent(msgs) ==
    IF last_tool_calls(msgs) # <<>> THEN "tools" ELSE END

\* faulty variant: an unmatched name falls back to the last tool the search saw
find_tool_fallback(name) ==
    IF \E i \in 1..Len(TOOLS) : TOOLS[i] = name THEN name ELSE TOOLS[Len(TOOLS)]

\* run_tools, handler.py 168-172: the registered tool of that name, "" for None
find_tool(name) ==
    IF \E i \in 1..Len(TOOLS) : TOOLS[i] = name THEN name ELSE ""

\* run_tools, handler.py 174
unknown_tool_msg(name) == Msg("tool", name, <<"error", "Unknown tool: ", name>>, <<>>)

\* run_tools, handler.py 179
error_result(e) == <<"error", e>>

\* run_tools, handler.py 180
tool_result_msg(name, result) == Msg("tool", name, result, <<>>)

\* faulty variant: the results are put back newest first
extend_reversed(msgs, tmsgs) ==
    msgs \o [i \in 1..Len(tmsgs) |-> tmsgs[Len(tmsgs) + 1 - i]]

\* run_tools, handler.py 181: state["messages"].extend(tool_msgs)
extend_messages(msgs, tmsgs) == msgs \o tmsgs

\* lambda_handler, handler.py 212-216: content of the last assistant message
RECURSIVE final_msg(_, _)
final_msg(msgs, i) ==
    IF i = 0 THEN ""
    ELSE IF msgs[i].role = "assistant" THEN msgs[i].content[1]
    ELSE final_msg(msgs, i - 1)

\* lambda_handler, handler.py 218-222
parse_final(text) ==
    IF json_loads(text).parses
    THEN [statusCode |-> 200, status |-> json_loads(text).status, message |-> "", raw |-> ""]
    ELSE [statusCode |-> 200, status |-> "error", message |-> "Non-JSON final output",
          raw |-> text]

\* lambda_handler, handler.py 223-224
error_response(e) == [statusCode |-> 500, status |-> "error", message |-> e, raw |-> ""]

\* exception messages of the collaborators
OracleError == "ThrottlingException"
EventError == "'list' object has no attribute 'get'"
LaunchError == "Executable doesn't exist"
PageError == "Timeout 15000ms exceeded"
HttpError == "Connection refused"
ToolErrors == {LaunchError, PageError}

\* ---------------------------------------------------- handler.py : actions
\* lambda_handler, handler.py 199-209: a new invocation in the same process.
\* The module-level browser_singleton is not touched.
LambdaHandlerStart ==
    /\ deployed = "handler"
    /\ hpc \in {"idle", "returned"}
    /\ run < MaxRuns
    /\ run' = run + 1
    /\ tci' = 0 /\ tool_msgs' = <<>> /\ invoked' = <<>> /\ seen' = <<>> /\ queries' = 0
    /\ \E isDict \in BOOLEAN :
         IF isDict
         THEN /\ messages' = start_messages
              /\ hpc' = "agent"
              /\ response' = NoResponse
         ELSE /\ messages' = <<>>          \* event.get raises, line 204
              /\ hpc' = "returned"
              /\ response' = error_response(EventError)
    /\ UNCHANGED <<deployed, oracle, browser_singleton, launched, exited, uses,
                   b2vars, lvars>>

\* agent_node, handler.py 147-151; an exception of llm.invoke leaves the graph
\* and is caught by lambda_handler, 223-224
AgentNode ==
    /\ hpc = "agent"
    /\ queries < MaxQueries
    /\ queries' = queries + 1
    /\ seen' = messages
    /\ \/ \E reply \in Replies(oracle, queries + 1) :
            /\ messages' = Append(messages, assistant_msg(reply))
            /\ hpc' = "route"
            /\ response' = response
       \/ /\ oracle = "finishing"          \* llm.invoke raises
          /\ messages' = messages
          /\ hpc' = "returned"
          /\ response' = error_response(OracleError)
    /\ UNCHANGED <<deployed, oracle, run, tci, tool_msgs, invoked,
                   browser_singleton, launched, exited, uses, b2vars, lvars>>

\* the conditional edge after "agent", handler.py 189
RouteAfterAgent ==
    /\ hpc = "route"
    /\ IF route_after_agent(messages) = "tools"
       THEN /\ hpc' = "tools"
            /\ tci' = 1 /\ tool_msgs' = <<>> /\ invoked' = <<>>
       ELSE /\ hpc' = "end"
            /\ UNCHANGED <<tci, tool_msgs, invoked>>
    /\ UNCHANGED <<deployed, oracle, run, messages, seen, queries,
                   browser_singleton, launched, exited, uses, response, b2vars, lvars>>

\* run_tools, handler.py 176-180: found.invoke(args) returned `result`
ToolReturned(name, found, result) ==
    /\ invoked' = Append(invoked, <<found, "returned">>)
    /\ tool_msgs' = Append(tool_msgs, tool_result_msg(name, result))
    /\ tci' = tci + 1
    /\ UNCHANGED <<hpc, response>>

\* faulty variant: no try around found.invoke: the exception leaves run_tools and the
\* graph and reaches the except clause of lambda_handler
ToolRaisedPropagates(name, found, e) ==
    /\ invoked' = Append(invoked, <<found, e>>)
    /\ hpc' = "returned"
    /\ response' = error_response(e)
    /\ UNCHANGED <<tool_msgs, tci>>

\* run_tools, handler.py 176-180: found.invoke(args) raised e
ToolRaised(name, found, e) ==
    /\ invoked' = Append(invoked, <<found, e>>)
    /\ tool_msgs' = Append(tool_msgs, tool_result_msg(name, error_result(e)))
    /\ tci' = tci + 1
    /\ UNCHANGED <<hpc, response>>

\* a browser tool, handler.py 88-125: get_browser() (81-85), then the page action
BrowserTool(name, found) ==
    IF browser_singleton = 0
    THEN \/ /\ ToolRaised(name, found, LaunchError)   \* Browser().__enter__() raises
            /\ UNCHANGED <<browser_singleton, launched, exited, uses>>
         \/ /\ browser_singleton' = Len(launched) + 1
            /\ launched' = Append(launched, run)
            /\ exited' = Append(exited, 0)
            /\ uses' = uses \cup {<<run, Len(launched) + 1>>}
            /\ \/ ToolReturned(name, found, <<"ok">>)
               \/ ToolRaised(name, found, PageError)
    ELSE /\ uses' = uses \cup {<<run, browser_singleton>>}
         /\ UNCHANGED <<browser_singleton, launched, exited>>
         /\ \/ ToolReturned(name, found, <<"ok">>)
            \/ ToolRaised(name, found, PageError)

\* api_request, handler.py 127-136: it catches its own exceptions
ApiRequest(name, found) ==
    /\ \/ ToolReturned(name, found, <<"ok", "200">>)
       \/ ToolReturned(name, found, <<"error", HttpError>>)
    /\ UNCHANGED <<browser_singleton, launched, exited, uses>>

\* run_tools, handler.py 164-180: one iteration of the loop over tool_calls
RunToolsStep ==
    /\ hpc = "tools"
    /\ tci <= Len(last_tool_calls(messages))
    /\ LET name == last_tool_calls(messages)[tci]
           found == find_tool(name)
       IN IF found = ""
          THEN /\ tool_msgs' = Append(tool_msgs, unknown_tool_msg(name))
               /\ tci' = tci + 1
               /\ UNCHANGED <<hpc, response, invoked,
                              browser_singleton, launched, exited, uses>>
          ELSE IF found \in BrowserTools
               THEN BrowserTool(name, found)
               ELSE ApiRequest(name, found)
    /\ UNCHANGED <<deployed, oracle, run, messages, seen, queries, b2vars, lvars>>

\* run_tools, handler.py 181-182, and the edge tools -> agent, 190
RunToolsFinish ==
    /\ hpc = "tools"
    /\ tci > Len(last_tool_calls(messages))
    /\ messages' = extend_messages(messages, tool_msgs)
    /\ hpc' = "agent"
    /\ UNCHANGED <<deployed, oracle, run, tci, tool_msgs, invoked, seen, queries,
                   browser_singleton, launched, exited, uses, response, b2vars, lvars>>

\* lambda_handler, handler.py 211-222: the graph reached END
LambdaHandlerReturn ==
    /\ hpc = "end"
    /\ response' = parse_final(final_msg(messages, Len(messages)))
    /\ hpc' = "returned"
    /\ UNCHANGED <<deployed, oracle, run, messages, tci, tool_msgs, invoked, seen, queries,
                   browser_singleton, launched, exited, uses, b2vars, lvars>>


\* --------------------------------------------- fixed-script handlers : data
NoResult == [kind |-> "none", value |-> ""]
Return(v) == [kind |-> "return", value |-> v]
Raise(e) == [kind |-> "raise", value |-> e]

StartError == "start_browser_session failed"
StopError == "stop_browser_session failed"
ScriptError == "page action failed"

\* where an unwinding completion leaves the handler
DonePc(completion) == IF completion.kind = "raise" THEN "raised" ELSE "returned"

\* ------------------------------------------------ agentcore_b2.py : actions
\* handler 130-134 entering _browser_session 40-42: client.start() is outside
\* the try of the context manager
B2Start ==
    /\ deployed = "agentcore_b2"
    /\ b2pc = "idle"
    /\ \/ /\ b2acquired' = TRUE
          /\ b2pc' = "started"
          /\ b2result' = b2result
       \/ /\ b2acquired' = b2acquired
          /\ b2pc' = "raised"
          /\ b2result' = Raise(StartError)
    /\ UNCHANGED <<deployed, oracle, hvars, b2stops, b2stop, b2pending, lvars>>

\* _browser_session 43-46: generate_ws_headers() inside the try, then yield
B2Headers ==
    /\ b2pc = "started"
    /\ \/ /\ b2pc' = "yielded"
          /\ b2pending' = b2pending
       \/ /\ b2pc' = "stopping"
          /\ b2pending' = Raise(ScriptError)
    /\ UNCHANGED <<deployed, oracle, hvars, b2acquired, b2stops, b2stop, b2result, lvars>>

\* handler 136-137: sync_playwright() and connect_over_cdp, before the inner try
B2Connect ==
    /\ b2pc = "yielded"
    /\ \/ /\ b2pc' = "connected"
          /\ b2pending' = b2pending
       \/ /\ b2pc' = "stopping"
          /\ b2pending' = Raise(ScriptError)
    /\ UNCHANGED <<deployed, oracle, hvars, b2acquired, b2stops, b2stop, b2result, lvars>>

\* handler 138-159: the page script, the upload and the return statement
B2Body ==
    /\ b2pc = "connected"
    /\ b2pc' = "closing"
    /\ \/ b2pending' = Return("SUCCESS")
       \/ b2pending' = Raise(ScriptError)
    /\ UNCHANGED <<deployed, oracle, hvars, b2acquired, b2stops, b2stop, b2result, lvars>>

\* handler 160-164: browser.close(), its failure passed over
B2BrowserClose ==
    /\ b2pc = "closing"
    /\ b2pc' = "stopping"
    /\ UNCHANGED <<deployed, oracle, hvars, b2acquired, b2stops, b2stop, b2pending,
                   b2result, lvars>>

\* what the caller gets after client.stop() ended with stopOutcome while
\* `pending` was unwinding: _browser_session 47-49 has no except around stop()
b2_after_stop(pending, stopOutcome) ==
    IF stopOutcome = "raised" THEN Raise(StopError) ELSE pending

\* _browser_session 47-49: finally: client.stop()
B2Stop ==
    /\ b2pc = "stopping"
    /\ b2stops' = b2stops + 1
    /\ \E stopOutcome \in {"ok", "raised"} :
         /\ b2stop' = stopOutcome
         /\ b2result' = b2_after_stop(b2pending, stopOutcome)
         /\ b2pc' = DonePc(b2_after_stop(b2pending, stopOutcome))
    /\ UNCHANGED <<deployed, oracle, hvars, b2acquired, b2pending, lvars>>

\* ------------------------------------------------------ lambda.py : actions
\* lambda.py line 1 imports os, json, time, boto3: base64 is not a name of the module
base64_imported == FALSE

\* handler 19-27: start_browser_session is called before the try
LamStart ==
    /\ deployed = "lambda"
    /\ lpc = "idle"
    /\ \/ /\ lacquired' = TRUE
          /\ lpc' = "started"
          /\ lresult' = lresult
       \/ /\ lacquired' = lacquired
          /\ lpc' = "raised"
          /\ lresult' = Raise(StartError)
    /\ UNCHANGED <<deployed, oracle, hvars, b2vars, lstops, lstop, lpending>>

\* handler 29-52: the try body and its except clause
LamBody ==
    /\ lpc = "started"
    /\ lpc' = "stopping"
    /\ IF base64_imported
       THEN \/ lpending' = Return("SUCCESS")
            \/ lpending' = Return("ERROR")        \* put_object raised, 51-52
       ELSE lpending' = Return("ERROR")           \* NameError at line 40, 51-52
    /\ UNCHANGED <<deployed, oracle, hvars, b2vars, lacquired, lstops, lstop, lresult>>

\* handler 53-60: what the caller gets after stop_browser_session ended
lam_after_stop(pending, stopOutcome) == pending

\* handler 53-60: finally: try: stop_browser_session except Exception: pass
LamStop ==
    /\ lpc = "stopping"
    /\ lstops' = lstops + 1
    /\ \E stopOutcome \in {"ok", "raised"} :
         /\ lstop' = stopOutcome
         /\ lresult' = lam_after_stop(lpending, stopOutcome)
         /\ lpc' = DonePc(lam_after_stop(lpending, stopOutcome))
    /\ UNCHANGED <<deployed, oracle, hvars, b2vars, lacquired, lpending>>

\* ------------------------------------------------------------ specification
Init ==
    /\ deployed \in {"handler", "agentcore_b2", "lambda"}
    /\ oracle \in (IF deployed = "handler" THEN {"finishing", "greedy"} ELSE {"finishing"})
    /\ run = 0 /\ hpc = "idle" /\ messages = <<>>
    /\ tci = 0 /\ tool_msgs = <<>> /\ invoked = <<>> /\ seen = <<>> /\ queries = 0
    /\ browser_singleton = 0 /\ launched = <<>> /\ exited = <<>> /\ uses = {}
    /\ response = NoResponse
    /\ b2pc = "idle" /\ b2acquired = FALSE /\ b2stops = 0 /\ b2stop = "none"
    /\ b2pending = NoResult /\ b2result = NoResult
    /\ lpc = "idle" /\ lacquired = FALSE /\ lstops = 0 /\ lstop = "none"
    /\ lpending = NoResult /\ lresult = NoResult

Next ==
    \/ LambdaHandlerStart
    \/ AgentNode
    \/ RouteAfterAgent
    \/ RunToolsStep
    \/ RunToolsFinish
    \/ LambdaHandlerReturn
    \/ B2Start
    \/ B2Headers
    \/ B2Connect
    \/ B2Body
    \/ B2BrowserClose
    \/ B2Stop
    \/ LamStart
    \/ LamBody
    \/ LamStop

Spec == Init /\ [][Next]_vars


\* ------------------------------------------------------------- properties
Registered(name) == \E i \in 1..Len(TOOLS) : TOOLS[i] = name

\* index of the last assistant turn of a conversation, 0 when it has none
LastAssistant(msgs) ==
    LET I == { i \in 1..Len(msgs) : msgs[i].role = "assistant" }
    IN IF I = {} THEN 0 ELSE CHOOSE i \in I : \A j \in I : j <= i

\* how many of the first i requests name a registered tool
RegisteredUpTo(asked, i) == Cardinality({ j \in 1..i : Registered(asked[j]) })

\* the text is a Run Outcome: an object with a status of ok or error
IsRunOutcome(text) == text = OutcomeText

\* C1: whenever the oracle is queried after a reply that carried N >= 1 tool
\* requests, the conversation it is handed ends with exactly N tool-result
\* turns after that reply, one per request and in the order of the requests.
C1_ResultsBeforeNextQuery ==
    LET k == LastAssistant(seen)
    IN (queries >= 1 /\ k > 0) =>
         LET asked == seen[k].tool_calls
         IN /\ Len(asked) >= 1
            /\ Len(seen) - k = Len(asked)
            /\ \A i \in 1..Len(asked) :
                 /\ seen[k + i].role = "tool"
                 /\ seen[k + i].name = asked[i]

C1_Witness ==
    /\ queries = 2
    /\ LastAssistant(seen) = 3
    /\ seen[3].tool_calls = <<"send_mail", "click">>
    /\ Len(seen) = 5

\* C3: a request naming no registered tool gets exactly one turn, the error
\* result "Unknown tool: <name>"; no tool is invoked for it; the run goes on:
\* the batch is completed and the oracle is queried again with N results.
C3_UnknownTool ==
    /\ hpc = "tools" =>
         LET asked == last_tool_calls(messages)
         IN /\ Len(tool_msgs) = tci - 1
            /\ response = NoResponse
            /\ Len(invoked) = RegisteredUpTo(asked, Len(tool_msgs))
            /\ \A j \in 1..Len(invoked) : Registered(invoked[j][1])
            /\ \A i \in 1..Len(tool_msgs) :
                 ~Registered(asked[i]) =>
                    tool_msgs[i] = [role |-> "tool", name |-> asked[i],
                                    content |-> <<"error", "Unknown tool: ", asked[i]>>,
                                    tool_calls |-> <<>>]
    /\ (hpc = "agent" /\ LastAssistant(messages) > 0) =>
         LET k == LastAssistant(messages)
             asked == messages[k].tool_calls
         IN (\E i \in 1..Len(asked) : ~Registered(asked[i])) =>
               /\ response = NoResponse
               /\ Len(messages) - k = Len(asked)
               /\ \A i \in 1..Len(asked) :
                    ~Registered(asked[i]) =>
                       messages[k + i].content = <<"error", "Unknown tool: ", asked[i]>>

C3_Witness ==
    /\ queries = 2
    /\ LastAssistant(seen) = 3
    /\ seen[3].tool_calls = <<"send_mail", "api_request">>
    /\ seen[4].content = <<"error", "Unknown tool: ", "send_mail">>
    /\ seen[5].content = <<"ok", "200">>
    /\ invoked = <<<<"api_request", "returned">>>>

\* C4: each request naming a registered tool invokes that tool once, in
\* order, and gets a Tool Result; when the tool raises, the result is the
\* error result carrying the exception's message, the batch goes on, and the
\* exception never becomes the handler's response.
C4_ToolErrorBecomesResult ==
    /\ response.message \notin ToolErrors
    /\ hpc = "tools" =>
         LET asked == last_tool_calls(messages)
         IN /\ Len(tool_msgs) = tci - 1
            /\ Len(invoked) = RegisteredUpTo(asked, Len(tool_msgs))
            /\ \A i \in 1..Len(tool_msgs) :
                 Registered(asked[i]) =>
                    LET call == invoked[RegisteredUpTo(asked, i)]
                    IN /\ call[1] = asked[i]
                       /\ tool_msgs[i].role = "tool"
                       /\ tool_msgs[i].name = asked[i]
                       /\ tool_msgs[i].content[1] \in {"ok", "error"}
                       /\ call[2] \in ToolErrors =>
                            tool_msgs[i].content = <<"error", call[2]>>

C4_Witness ==
    /\ hpc = "tools"
    /\ last_tool_calls(messages) = <<"click", "click">>
    /\ invoked = <<<<"click", PageError>>, <<"click", "returned">>>>
    /\ tool_msgs[1].content = <<"error", PageError>>
    /\ tool_msgs[2].content = <<"ok">>

\* C9: the loop is the AWAITING_PLAN / EXECUTING_TOOLS / DONE machine: a reply
\* with tool requests leads to the tools and then back to the oracle, a reply
\* without leads to DONE; in DONE nothing is queried or executed any more, and
\* the response is made from the reply that led to DONE.
C9_State ==
    /\ hpc = "tools" =>
         /\ messages[Len(messages)].role = "assistant"
         /\ last_tool_calls(messages) # <<>>
    /\ hpc = "end" =>
         /\ messages[Len(messages)].role = "assistant"
         /\ last_tool_calls(messages) = <<>>
    /\ (hpc = "returned" /\ response.statusCode = 200) =>
         /\ messages[Len(messages)].role = "assistant"
         /\ last_tool_calls(messages) = <<>>
         /\ LET text == messages[Len(messages)].content[1]
            IN /\ json_loads(text).parses =>
                    response.status = json_loads(text).status
               /\ ~json_loads(text).parses => response.raw = text

C9_Step ==
    /\ (hpc = "route" /\ hpc' # "route") =>
         hpc' = IF last_tool_calls(messages) # <<>> THEN "tools" ELSE "end"
    /\ (hpc = "tools" /\ hpc' # "tools") => hpc' = "agent"
    /\ hpc = "end" =>
         /\ hpc' \in {"end", "returned"}
         /\ UNCHANGED <<messages, queries, seen, invoked, uses>>
    /\ (hpc = "returned" /\ run' = run) =>
         UNCHANGED <<hpc, messages, queries, seen, invoked, uses, response>>

C9_PlannerStateMachine == []C9_State /\ [][C9_Step]_vars

C9_Witness ==
    /\ hpc = "returned"
    /\ response.statusCode = 200
    /\ queries = 2
    /\ Len(messages) > 3

C2_ReleasedExactlyOnce ==
    /\ (b2pc \in {"returned", "raised"} /\ b2acquired) => b2stops = 1
    /\ (lpc \in {"returned", "raised"} /\ lacquired) => lstops = 1
    /\ hpc = "returned" =>
         \A s \in 1..Len(launched) : launched[s] = run => exited[s] = 1

\* C5: a final turn that is not a Run Outcome is answered with the degraded
\* outcome: status error, the non-JSON message, the raw text.
C5_MalformedFinalIsDegraded ==
    (hpc = "returned" /\ response.statusCode = 200) =>
        LET text == final_msg(messages, Len(messages))
        IN ~IsRunOutcome(text) =>
              /\ response.status = "error"
              /\ response.message = "Non-JSON final output"
              /\ response.raw = text

\* C6: no handler raises to its caller.
C6_NeverRaises ==
    /\ hpc = "returned" => response.statusCode \in {200, 500}
    /\ b2result.kind # "raise"
    /\ lresult.kind # "raise"

\* C7: when stopping the session raises, the handler still gives the outcome
\* it was about to give.
C7_StopFailureSwallowed ==
    /\ b2stop = "raised" => b2result = b2pending
    /\ lstop = "raised" => lresult = lpending

\* C8: every session a run's tools act on was acquired during that run.
C8_FreshSessionPerRun ==
    \A u \in uses : launched[u[2]] = u[1]

=============================================================================
